---- MODULE Spec2Model ----
(***************************************************************************)
(* A model of the metacells tools                                          *)
(*   tools/rare.py      find_rare_gene_modules  (specification SpecRare)   *)
(*   tools/project.py   project_query_onto_atlas (specification SpecProject)*)
(*                                                                         *)
(* Floating point numbers are modelled as exact rationals <<num, den>>     *)
(* with den > 0 and compared by cross multiplication; NaN is a separate    *)
(* value.  Python arrays are functions over 0 .. n-1, Python lists are     *)
(* sequences (position p of the list is element p+1 of the sequence).      *)
(***************************************************************************)
EXTENDS Integers, Sequences, FiniteSets, TLC

(***************************************************************************)
(* Bounds of the model.                                                    *)
(***************************************************************************)
NumCells == 2
NumGenes == 3
MaxUmi == 2
NumAtlas == 2
NumQuery == 2
NumProjectGenes == 2
MaxProjectUmi == 1
WeightDenominator == 3
MaxSampledCells == 2
MaxSampledGenes == 2
MaxSampledUmi == 2
MaxCandidateGenes == 4

Cells == 0 .. (NumCells - 1)
Genes == 0 .. (NumGenes - 1)
AtlasRows == 0 .. (NumAtlas - 1)
QueryRows == 0 .. (NumQuery - 1)
ProjectGenes == 0 .. (NumProjectGenes - 1)

(***************************************************************************)
(* Generic helpers: sums, rationals, sequences.                            *)
(***************************************************************************)
RECURSIVE SumSeq(_)
SumSeq(s) == IF s = <<>> THEN 0 ELSE Head(s) + SumSeq(Tail(s))

RECURSIVE SumOver(_, _)
SumOver(f, S) ==
    IF S = {} THEN 0
    ELSE LET x == CHOOSE y \in S : TRUE IN f[x] + SumOver(f, S \ {x})

SetMax(S) == CHOOSE x \in S : \A y \in S : y <= x

Range(s) == {s[i] : i \in 1 .. Len(s)}

\* The ascending sequence of the elements of a finite set of integers.
RECURSIVE SetToSortedSeq(_)
SetToSortedSeq(S) ==
    IF S = {} THEN <<>>
    ELSE LET m == CHOOSE x \in S : \A y \in S : x <= y
         IN <<m>> \o SetToSortedSeq(S \ {m})

RLess(a, b) == a[1] * b[2] < b[1] * a[2]
RLeq(a, b) == a[1] * b[2] <= b[1] * a[2]
REq(a, b) == a[1] * b[2] = b[1] * a[2]

RAdd(a, b) == <<a[1] * b[2] + b[1] * a[2], a[2] * b[2]>>
RMul(a, b) == <<a[1] * b[1], a[2] * b[2]>>

NaN == <<0, 0>>
IsNaN(a) == a[2] = 0

\* a / b of non-negative numbers: 0 / 0 is NaN
RDiv(a, b) == IF b[1] = 0 /\ a[1] = 0 THEN NaN ELSE <<a[1] * b[2], a[2] * b[1]>>

RECURSIVE RSumSeq(_)
RSumSeq(s) == IF s = <<>> THEN <<0, 1>> ELSE RAdd(Head(s), RSumSeq(Tail(s)))

RECURSIVE TwoToThe(_)
TwoToThe(n) == IF n <= 0 THEN 1 ELSE 2 * TwoToThe(n - 1)

(***************************************************************************)
(* State of one call of find_rare_gene_modules.                            *)
(***************************************************************************)
VARIABLES
    rpc,                        \* position of the call in find_rare_gene_modules
    umis,                       \* the focus data of adata: cells x genes
    rare_params,                \* the keyword parameters of the call
    rare_module_of_cells,
    rare_module_of_genes,
    list_of_names_of_genes_of_modules,
    candidate_genes_indices,
    combined_candidate_indices, \* the values of the dictionary, in its order
    module_position,            \* loop position of _identify_cells
    max_strength_of_cells,
    gene_indices_of_modules,
    raw_module_index,           \* loop position of _compress_results
    rare_annotations            \* what _results wrote to adata

rare_vars == <<rpc, umis, rare_params, rare_module_of_cells, rare_module_of_genes,
               list_of_names_of_genes_of_modules, candidate_genes_indices,
               combined_candidate_indices, module_position, max_strength_of_cells,
               gene_indices_of_modules, raw_module_index, rare_annotations>>

(***************************************************************************)
(* State of one call of project_query_onto_atlas.                          *)
(***************************************************************************)
VARIABLES
    ppc,                    \* position of the call in project_query_onto_atlas
    atlas_umis,             \* the data of adata: atlas metacells x genes
    query_umis,             \* the data of qdata: query metacells x genes
    atlas_var_names,        \* adata.var_names
    query_var_names,        \* qdata.var_names
    project_params,         \* the keyword parameters of the call
    represent_results,      \* what ut.represent returned to each row's call
    results,                \* what parallel_map collected of each row's call
    qdata_charted,          \* the "charted" annotation of qdata
    qdata_projected,        \* the "projected" annotation of qdata
    sparse_weights          \* the returned matrix

project_vars == <<ppc, atlas_umis, query_umis, atlas_var_names, query_var_names,
                  project_params, represent_results, results, qdata_charted,
                  qdata_projected, sparse_weights>>

(***************************************************************************)
(* State of one call of find_properly_sampled_cells or                     *)
(* find_properly_sampled_genes.                                            *)
(***************************************************************************)
VARIABLES
    spc,                    \* position of the call
    sampled_umis,           \* the focus data of adata: cells x genes
    sampled_call,           \* the function called and its parameters
    adata_obs,              \* the per-observation (cell) annotations of adata
    adata_var,              \* the per-variable (gene) annotations of adata
    sampled_return          \* what the call returned

sampled_vars == <<spc, sampled_umis, sampled_call, adata_obs, adata_var, sampled_return>>

(***************************************************************************)
(* State of one call of _identify_genes.                                   *)
(***************************************************************************)
VARIABLES
    gpc,                    \* position of the call in _identify_genes
    genes_count,            \* candidate_genes_count
    genes_linkage,          \* linkage
    genes_similarities,     \* similarities_between_candidate_genes
    genes_min_correlation,  \* min_module_correlation
    genes_position,         \* the position of the loop in the linkage
    genes_dict,             \* the dictionary combined_candidate_indices
    genes_outcomes          \* the branch each iteration of the loop took

genes_vars == <<gpc, genes_count, genes_linkage, genes_similarities,
                genes_min_correlation, genes_position, genes_dict, genes_outcomes>>

vars == <<rare_vars, project_vars, sampled_vars, genes_vars>>

\* The state of the variables of a function that is not called.
SampledIdle ==
    /\ spc = "idle"
    /\ sampled_umis = <<>>
    /\ sampled_call = <<>>
    /\ adata_obs = <<>>
    /\ adata_var = <<>>
    /\ sampled_return = <<>>

GenesIdle ==
    /\ gpc = "idle"
    /\ genes_count = 0
    /\ genes_linkage = <<>>
    /\ genes_similarities = <<>>
    /\ genes_min_correlation = <<>>
    /\ genes_position = 0
    /\ genes_dict = <<>>
    /\ genes_outcomes = <<>>

\* adata.var_names: the name of every gene.
var_names == [g \in Genes |-> 100 + g]

NoAnnotations == [written |-> FALSE]

\* The parameter values the model calls find_rare_gene_modules with: every
\* combination of the values below, and two calls that break an assertion
\* of the entry.
ValidRareParams ==
    [max_gene_cell_fraction : {<<1, 2>>, <<1, 1>>},
     min_gene_maximum : {1, 2},
     min_genes_of_modules : {1, 2},
     min_cells_of_modules : {1, 2},
     target_metacell_size : {4},
     min_modules_size_factor : {<<1, 2>>},
     min_module_correlation : {<<1, 2>>},
     min_cell_module_total : {0, 1, 2}]

DefaultRareParams ==
    [max_gene_cell_fraction |-> <<1, 1>>,
     min_gene_maximum |-> 1,
     min_genes_of_modules |-> 1,
     min_cells_of_modules |-> 1,
     target_metacell_size |-> 4,
     min_modules_size_factor |-> <<1, 2>>,
     min_module_correlation |-> <<1, 2>>,
     min_cell_module_total |-> 1]

RareParams ==
    ValidRareParams \cup
    {[DefaultRareParams EXCEPT !.min_cells_of_modules = 0],
     [DefaultRareParams EXCEPT !.min_genes_of_modules = 0]}

\* The state of the variables of a function that is not called.
ProjectIdle ==
    /\ ppc = "idle"
    /\ atlas_umis = <<>>
    /\ query_umis = <<>>
    /\ atlas_var_names = <<>>
    /\ query_var_names = <<>>
    /\ project_params = <<>>
    /\ represent_results = <<>>
    /\ results = <<>>
    /\ qdata_charted = <<>>
    /\ qdata_projected = <<>>
    /\ sparse_weights = <<>>

RareInit ==
    /\ ProjectIdle
    /\ SampledIdle
    /\ GenesIdle
    /\ rpc = "start"
    /\ umis \in [Cells -> [Genes -> 0 .. MaxUmi]]
    /\ rare_params \in RareParams
    /\ rare_module_of_cells = [c \in Cells |-> -1]
    /\ rare_module_of_genes = [g \in Genes |-> -1]
    /\ list_of_names_of_genes_of_modules = <<>>
    /\ candidate_genes_indices = <<>>
    /\ combined_candidate_indices = <<>>
    /\ module_position = 0
    /\ max_strength_of_cells = [c \in Cells |-> <<0, 1>>]
    /\ gene_indices_of_modules = <<>>
    /\ raw_module_index = 0
    /\ rare_annotations = NoAnnotations

total_umis_of_cells == [c \in Cells |-> SumOver(umis[c], Genes)]

(***************************************************************************)
(* _pick_candidates                                                        *)
(***************************************************************************)
nnz_cells_of_genes == [g \in Genes |-> Cardinality({c \in Cells : umis[c][g] # 0})]

max_umis_of_genes == [g \in Genes |-> SetMax({umis[c][g] : c \in Cells})]

\* nnz_cells_of_genes / cells_count <= max_gene_cell_fraction
nnz_cell_fraction_below_mask_of_genes(p) ==
    [g \in Genes |->
        nnz_cells_of_genes[g] * p.max_gene_cell_fraction[2]
            < p.max_gene_cell_fraction[1] * NumCells]

nnz_cell_fraction_mask_of_genes(p) ==
    [g \in Genes |->
        nnz_cells_of_genes[g] * p.max_gene_cell_fraction[2]
            <= p.max_gene_cell_fraction[1] * NumCells]

max_umis_mask_of_genes(p) ==
    [g \in Genes |-> max_umis_of_genes[g] >= p.min_gene_maximum]

candidates_mask_of_genes(p) ==
    [g \in Genes |-> max_umis_mask_of_genes(p)[g] /\ nnz_cell_fraction_mask_of_genes(p)[g]]

\* np.where(candidates_mask_of_genes)[0]
PickedCandidateGenes(p) ==
    SetToSortedSeq({g \in Genes : candidates_mask_of_genes(p)[g]})

\* candidate_genes_count < min_genes_of_modules
NoCandidates(count, p) == count < 1

TooFewCandidates(count, p) == count < p.min_genes_of_modules

(***************************************************************************)
(* _genes_similarity and _cluster_genes are library calls: the model draws *)
(* their results, a symmetric similarity matrix over the candidate genes   *)
(* and a merge tree over them, from small sets.                            *)
(***************************************************************************)
SimilarityValues == {0, 1}

CandidatePairs(n) == {pr \in (0 .. (n - 1)) \X (0 .. (n - 1)) : pr[1] < pr[2]}

Similarities(n) ==
    {[i \in 0 .. (n - 1) |-> [j \in 0 .. (n - 1) |->
         IF i = j THEN 0 ELSE IF i < j THEN f[<<i, j>>] ELSE f[<<j, i>>]]] :
       f \in [CandidatePairs(n) -> SimilarityValues]}

\* The merge trees scipy.cluster.hierarchy.linkage can return for n leaves:
\* n - 1 merges, the merge of row i creating node n + i out of two nodes
\* that exist and were not merged before.
RECURSIVE LinkagesFrom(_, _, _)
LinkagesFrom(available, next, remaining) ==
    IF remaining = 0 THEN {<<>>}
    ELSE UNION {
           {<<pr>> \o rest :
              rest \in LinkagesFrom((available \ {pr[1], pr[2]}) \cup {next},
                                    next + 1, remaining - 1)} :
           pr \in {q \in available \X available : q[1] < q[2]}}

Linkages(n) == LinkagesFrom(0 .. (n - 1), n, n - 1)

(***************************************************************************)
(* _identify_genes.  The dictionary combined_candidate_indices is the      *)
(* sequence of its [key, genes] items in insertion order.                  *)
(***************************************************************************)
InitialCombined(n) == [i \in 1 .. n |-> [key |-> i - 1, genes |-> <<i - 1>>]]

DictHas(dict, key) == \E i \in 1 .. Len(dict) : dict[i].key = key

DictGet(dict, key) ==
    IF DictHas(dict, key)
    THEN (CHOOSE item \in Range(dict) : item.key = key).genes
    ELSE <<>>

DictKeep(dict, key) == dict

\* del combined_candidate_indices[key]
DictDel(dict, key) == SelectSeq(dict, LAMBDA item : item.key # key)

\* sorted(left_combined_candidates + right_combined_candidates)
SortedConcat(left, right) == SortSeq(left \o right, LAMBDA a, b : a < b)

\* np.nanmean of the similarities among the genes, the diagonal being NaN:
\* <<sum, count>> of the off-diagonal entries.
AverageLinkSimilarity(similarities, genes) ==
    LET S == Range(genes)
        offdiag == {pr \in S \X S : pr[1] # pr[2]}
        flat == [pr \in offdiag |-> similarities[pr[1]][pr[2]]]
    IN <<SumOver(flat, offdiag), Cardinality(offdiag)>>

MergeRejectedAtThreshold(average, min_module_correlation) ==
    RLeq(average, min_module_correlation)

\* average_link_similarity < min_module_correlation
MergeRejected(average, min_module_correlation) ==
    RLess(average, min_module_correlation)

\* One iteration of the loop over the linkage.
LinkStep(dict, link_index, link_data, similarities, min_module_correlation) ==
    LET left == DictGet(dict, link_data[1])
        right == DictGet(dict, link_data[2])
        link_combined_candidates == SortedConcat(left, right)
    IN IF left = <<>> \/ right = <<>> THEN dict
       ELSE IF MergeRejected(AverageLinkSimilarity(similarities, link_combined_candidates),
                             min_module_correlation)
       THEN dict
       ELSE DictDel(DictDel(Append(dict, [key |-> link_index,
                                          genes |-> link_combined_candidates]),
                            link_data[1]),
                    link_data[2])

\* The branch the iteration takes: the first continue, the second, or the merge.
LinkOutcome(dict, link_data, similarities, min_module_correlation) ==
    LET left == DictGet(dict, link_data[1])
        right == DictGet(dict, link_data[2])
    IN IF left = <<>> \/ right = <<>> THEN "skipped"
       ELSE IF MergeRejected(AverageLinkSimilarity(similarities, SortedConcat(left, right)),
                             min_module_correlation)
       THEN "rejected"
       ELSE "accepted"

RECURSIVE LinkLoop(_, _, _, _, _, _)
LinkLoop(dict, n, position, linkage, similarities, min_module_correlation) ==
    IF position > Len(linkage) THEN dict
    ELSE LinkLoop(LinkStep(dict, n + position - 1, linkage[position], similarities,
                           min_module_correlation),
                  n, position + 1, linkage, similarities, min_module_correlation)

\* combined_candidate_indices.values()
IdentifiedGenes(n, linkage, similarities, min_module_correlation) ==
    LET dict == LinkLoop(InitialCombined(n), n, 1, linkage, similarities,
                         min_module_correlation)
    IN [i \in 1 .. Len(dict) |-> dict[i].genes]

(***************************************************************************)
(* _identify_cells: one iteration of the loop over the candidate modules.  *)
(***************************************************************************)
\* candidate_genes_indices[module_candidate_indices]
module_gene_indices(module_candidate_indices) ==
    [i \in 1 .. Len(module_candidate_indices) |->
        candidate_genes_indices[module_candidate_indices[i] + 1]]

total_umis_of_module_of_cells(genes) ==
    [c \in Cells |-> SumSeq([i \in 1 .. Len(genes) |-> umis[c][genes[i]]])]

\* np.where(total_umis_of_module_of_cells > 0)[0]
expressing_cell_indices(genes, p) ==
    {c \in Cells : total_umis_of_module_of_cells(genes)[c] > 0}

\* np.where(total_umis_of_module_of_cells >= min_cell_module_total)[0]
strong_cell_indices(genes, p) ==
    {c \in Cells : total_umis_of_module_of_cells(genes)[c] >= p.min_cell_module_total}

\* total_umis_of_module_of_strong_cells / total_umis_of_strong_cells; 0 / 0 is NaN
fraction_of_module_of_strong_cells(genes, c) ==
    IF total_umis_of_cells[c] = 0 THEN NaN
    ELSE <<total_umis_of_module_of_cells(genes)[c], total_umis_of_cells[c]>>

\* fraction_of_module_of_strong_cells.min(): NaN when any fraction is NaN
min_strong_fraction(genes, p) ==
    LET strong == strong_cell_indices(genes, p)
        fractions == {fraction_of_module_of_strong_cells(genes, c) : c \in strong}
    IN IF \E f \in fractions : IsNaN(f) THEN NaN
       ELSE CHOOSE f \in fractions : \A other \in fractions : RLeq(f, other)

\* assert min_strong_fraction > 0
MinStrongFractionIsPositive(fraction) == ~IsNaN(fraction) /\ fraction[1] > 0

\* fraction_of_module_of_strong_cells / min_strong_fraction
module_strength_of_strong_cells(genes, p) ==
    LET minimum == min_strong_fraction(genes, p)
    IN [c \in strong_cell_indices(genes, p) |->
          LET f == fraction_of_module_of_strong_cells(genes, c)
          IN <<f[1] * minimum[2], f[2] * minimum[1]>>]

stronger_cell_indices(genes, p, max_strength) ==
    {c \in strong_cell_indices(genes, p) :
        RLess(max_strength[c], module_strength_of_strong_cells(genes, p)[c])}

\* The value stored into max_strength_of_cells for a stronger cell.
StoredMaxStrength(max_strength_of_strong_cell, module_strength_of_strong_cell) ==
    max_strength_of_strong_cell

\* The cells whose rare_module_of_cells is set to the index of the module.
CellsGivenModule(strong, stronger) == strong

RareEntry ==
    /\ UNCHANGED <<project_vars, sampled_vars, genes_vars>>
    /\ rpc = "start"
    /\ rpc' = IF rare_params.min_cells_of_modules > 0
                 /\ rare_params.min_genes_of_modules > 0
              THEN "pick_candidates" ELSE "failed"
    /\ UNCHANGED <<umis, rare_params, rare_module_of_cells, rare_module_of_genes,
                   list_of_names_of_genes_of_modules, candidate_genes_indices,
                   combined_candidate_indices, module_position, max_strength_of_cells,
                   gene_indices_of_modules, raw_module_index, rare_annotations>>

PickCandidates ==
    /\ UNCHANGED <<project_vars, sampled_vars, genes_vars>>
    /\ rpc = "pick_candidates"
    /\ LET picked == PickedCandidateGenes(rare_params)
       IN IF TooFewCandidates(Len(picked), rare_params)
          THEN /\ rpc' = "return_no_candidates"
               /\ UNCHANGED candidate_genes_indices
          ELSE /\ rpc' = "identify_genes"
               /\ candidate_genes_indices' = picked
    /\ UNCHANGED <<umis, rare_params, rare_module_of_cells, rare_module_of_genes,
                   list_of_names_of_genes_of_modules,
                   combined_candidate_indices, module_position, max_strength_of_cells,
                   gene_indices_of_modules, raw_module_index, rare_annotations>>

\* _genes_similarity, _cluster_genes and _identify_genes.  scipy's linkage
\* raises a ValueError for the empty distance matrix of a single gene.
IdentifyGenes ==
    /\ UNCHANGED <<project_vars, sampled_vars, genes_vars>>
    /\ rpc = "identify_genes"
    /\ LET n == Len(candidate_genes_indices)
       IN IF n < 2
          THEN /\ rpc' = "failed"
               /\ UNCHANGED <<combined_candidate_indices, module_position>>
          ELSE \E linkage \in Linkages(n), similarities \in Similarities(n) :
                 /\ combined_candidate_indices' =
                        IdentifiedGenes(n, linkage, similarities,
                                        rare_params.min_module_correlation)
                 /\ module_position' = 1
                 /\ rpc' = "identify_cells"
    /\ UNCHANGED <<umis, rare_params, rare_module_of_cells, rare_module_of_genes,
                   list_of_names_of_genes_of_modules, candidate_genes_indices,
                   max_strength_of_cells,
                   gene_indices_of_modules, raw_module_index, rare_annotations>>

IdentifyCellsStep ==
    /\ UNCHANGED <<project_vars, sampled_vars, genes_vars>>
    /\ rpc = "identify_cells"
    /\ module_position <= Len(combined_candidate_indices)
    /\ LET module_candidate_indices == combined_candidate_indices[module_position]
           genes == module_gene_indices(module_candidate_indices)
           strong == strong_cell_indices(genes, rare_params)
           Skip == /\ rpc' = rpc
                   /\ module_position' = module_position + 1
                   /\ UNCHANGED <<max_strength_of_cells, gene_indices_of_modules,
                                  rare_module_of_genes, rare_module_of_cells>>
       IN IF Len(module_candidate_indices) < rare_params.min_genes_of_modules
          THEN Skip
          ELSE IF strong = {}
          THEN Skip
          ELSE IF ~MinStrongFractionIsPositive(min_strong_fraction(genes, rare_params))
          THEN /\ rpc' = "failed"
               /\ UNCHANGED <<module_position, max_strength_of_cells,
                              gene_indices_of_modules, rare_module_of_genes,
                              rare_module_of_cells>>
          ELSE LET strength == module_strength_of_strong_cells(genes, rare_params)
                   stronger == stronger_cell_indices(genes, rare_params,
                                                     max_strength_of_cells)
                   module_index == Len(gene_indices_of_modules)
               IN IF stronger = {}
                  THEN Skip
                  ELSE /\ max_strength_of_cells' =
                            [c \in Cells |->
                               IF c \in stronger
                               THEN StoredMaxStrength(max_strength_of_cells[c], strength[c])
                               ELSE max_strength_of_cells[c]]
                       /\ gene_indices_of_modules' = Append(gene_indices_of_modules, genes)
                       /\ rare_module_of_genes' =
                            [g \in Genes |-> IF g \in Range(genes) THEN module_index
                                             ELSE rare_module_of_genes[g]]
                       /\ rare_module_of_cells' =
                            [c \in Cells |->
                               IF c \in CellsGivenModule(strong, stronger)
                               THEN module_index ELSE rare_module_of_cells[c]]
                       /\ module_position' = module_position + 1
                       /\ rpc' = rpc
    /\ UNCHANGED <<umis, rare_params, list_of_names_of_genes_of_modules,
                   candidate_genes_indices, combined_candidate_indices,
                   raw_module_index, rare_annotations>>

\* The end of _identify_cells and the test of its result in find_rare_gene_modules.
IdentifyCellsDone ==
    /\ UNCHANGED <<project_vars, sampled_vars, genes_vars>>
    /\ rpc = "identify_cells"
    /\ module_position > Len(combined_candidate_indices)
    /\ rpc' = IF Len(gene_indices_of_modules) = 0 THEN "return_no_modules" ELSE "compress"
    /\ raw_module_index' = 0
    /\ UNCHANGED <<umis, rare_params, rare_module_of_cells, rare_module_of_genes,
                   list_of_names_of_genes_of_modules, candidate_genes_indices,
                   combined_candidate_indices, module_position, max_strength_of_cells,
                   gene_indices_of_modules, rare_annotations>>

(***************************************************************************)
(* _compress_results: one iteration of the loop over the recorded modules. *)
(***************************************************************************)
\* target_metacell_size * min_modules_size_factor
min_umis_of_modules(p) ==
    <<p.target_metacell_size * p.min_modules_size_factor[1], p.min_modules_size_factor[2]>>

\* np.where(rare_module_of_cells == raw_module_index)[0]
module_cell_indices(module_of_cells, index) == {c \in Cells : module_of_cells[c] = index}

total_umis_of_module(cells) == SumOver(total_umis_of_cells, cells)

ModuleIsDiscardedAtThreshold(cells_count, total_umis, p) ==
    \/ cells_count <= p.min_cells_of_modules
    \/ RLeq(<<total_umis, 1>>, min_umis_of_modules(p))

ModuleIsDiscarded(cells_count, total_umis, p) ==
    \/ cells_count < p.min_cells_of_modules
    \/ RLess(<<total_umis, 1>>, min_umis_of_modules(p))

\* rare_module_of_cells[...] = -1 and rare_module_of_genes[...] = -1
UnassignedNothing(module_of, members) == module_of

Unassigned(module_of, members) ==
    [x \in DOMAIN module_of |-> IF x \in members THEN -1 ELSE module_of[x]]

\* The index a kept module is renumbered to.
RawModuleIndex(names_of_modules, raw_index) == raw_index

CompressedModuleIndex(names_of_modules, raw_index) == Len(names_of_modules)

\* np.array(adata.var_names[module_gene_indices])
names_of_genes_of_module(genes) == [i \in 1 .. Len(genes) |-> var_names[genes[i]]]

CompressStep ==
    /\ UNCHANGED <<project_vars, sampled_vars, genes_vars>>
    /\ rpc = "compress"
    /\ raw_module_index < Len(gene_indices_of_modules)
    /\ LET genes == gene_indices_of_modules[raw_module_index + 1]
           cells == module_cell_indices(rare_module_of_cells, raw_module_index)
           module_index == CompressedModuleIndex(list_of_names_of_genes_of_modules,
                                                 raw_module_index)
       IN IF ModuleIsDiscarded(Cardinality(cells), total_umis_of_module(cells), rare_params)
          THEN /\ rare_module_of_cells' = Unassigned(rare_module_of_cells, cells)
               /\ rare_module_of_genes' = Unassigned(rare_module_of_genes, Range(genes))
               /\ UNCHANGED list_of_names_of_genes_of_modules
          ELSE /\ IF raw_module_index # module_index
                  THEN /\ rare_module_of_cells' =
                            [c \in Cells |-> IF c \in cells THEN module_index
                                             ELSE rare_module_of_cells[c]]
                       /\ rare_module_of_genes' =
                            [g \in Genes |-> IF g \in Range(genes) THEN module_index
                                             ELSE rare_module_of_genes[g]]
                  ELSE UNCHANGED <<rare_module_of_cells, rare_module_of_genes>>
               /\ list_of_names_of_genes_of_modules' =
                    Append(list_of_names_of_genes_of_modules,
                           names_of_genes_of_module(genes))
    /\ raw_module_index' = raw_module_index + 1
    /\ UNCHANGED <<rpc, umis, rare_params, candidate_genes_indices,
                   combined_candidate_indices, module_position, max_strength_of_cells,
                   gene_indices_of_modules, rare_annotations>>

CompressDone ==
    /\ UNCHANGED <<project_vars, sampled_vars, genes_vars>>
    /\ rpc = "compress"
    /\ raw_module_index >= Len(gene_indices_of_modules)
    /\ rpc' = "return_compressed"
    /\ UNCHANGED <<umis, rare_params, rare_module_of_cells, rare_module_of_genes,
                   list_of_names_of_genes_of_modules, candidate_genes_indices,
                   combined_candidate_indices, module_position, max_strength_of_cells,
                   gene_indices_of_modules, raw_module_index, rare_annotations>>

(***************************************************************************)
(* _results, called from the three return statements.                      *)
(***************************************************************************)
ReturnPositions == {"return_no_candidates", "return_no_modules", "return_compressed"}

\* The two assertions of _results.
ResultsAssertionsHold(module_of_cells, module_of_genes, names_of_modules) ==
    /\ SetMax({module_of_cells[c] : c \in Cells}) = Len(names_of_modules) - 1
    /\ SetMax({module_of_genes[g] : g \in Genes}) = Len(names_of_modules) - 1

Results ==
    /\ UNCHANGED <<project_vars, sampled_vars, genes_vars>>
    /\ rpc \in ReturnPositions
    /\ IF ResultsAssertionsHold(rare_module_of_cells, rare_module_of_genes,
                                list_of_names_of_genes_of_modules)
       THEN /\ rpc' = "returned"
            /\ rare_annotations' =
                 [written |-> TRUE,
                  rare_gene_modules |-> list_of_names_of_genes_of_modules,
                  genes_rare_gene_module |-> rare_module_of_genes,
                  rare_gene |-> [g \in Genes |-> rare_module_of_genes[g] >= 0],
                  cells_rare_gene_module |-> rare_module_of_cells,
                  rare_cell |-> [c \in Cells |-> rare_module_of_cells[c] >= 0]]
       ELSE /\ rpc' = "failed"
            /\ UNCHANGED rare_annotations
    /\ UNCHANGED <<umis, rare_params, rare_module_of_cells, rare_module_of_genes,
                   list_of_names_of_genes_of_modules, candidate_genes_indices,
                   combined_candidate_indices, module_position, max_strength_of_cells,
                   gene_indices_of_modules, raw_module_index>>

RareNext ==
    \/ RareEntry
    \/ PickCandidates
    \/ IdentifyGenes
    \/ IdentifyCellsStep
    \/ IdentifyCellsDone
    \/ CompressStep
    \/ CompressDone
    \/ Results


(***************************************************************************)
(* project_query_onto_atlas: the inputs.  Every metacell has UMIs, the     *)
(* weights ut.represent returns are multiples of 1 / WeightDenominator,    *)
(* the fold thresholds are whole numbers, so that a fold (a difference of  *)
(* log2 values) is compared with a threshold as a ratio with a power of 2. *)
(***************************************************************************)
MetacellRows ==
    {row \in [ProjectGenes -> 0 .. MaxProjectUmi] : \E g \in ProjectGenes : row[g] > 0}

GeneNames == [g \in 1 .. NumProjectGenes |-> 200 + g]

\* The gene names in another order.
OtherGeneNames == [g \in 1 .. NumProjectGenes |-> 200 + (NumProjectGenes + 1 - g)]

ValidProjectParams ==
    [project_fold_normalization : {<<1, 1>>},
     project_candidates_count : {1, 2},
     project_min_significant_gene_value : {0, 2},
     project_min_usage_weight : {<<0, 1>>, <<2, 3>>, <<1, 1>>},
     project_min_consistency_weight : {<<0, 1>>, <<1, 1>>},
     project_max_consistency_fold : {0, 1},
     project_max_inconsistent_genes : {0},
     project_max_projection_fold : {0, 1}]

DefaultProjectParams ==
    [project_fold_normalization |-> <<1, 1>>,
     project_candidates_count |-> 2,
     project_min_significant_gene_value |-> 0,
     project_min_usage_weight |-> <<0, 1>>,
     project_min_consistency_weight |-> <<0, 1>>,
     project_max_consistency_fold |-> 1,
     project_max_inconsistent_genes |-> 1,
     project_max_projection_fold |-> 1]

\* Calls with one parameter out of its range.
InvalidProjectParams ==
    {[DefaultProjectParams EXCEPT !.project_fold_normalization = <<0, 1>>],
     [DefaultProjectParams EXCEPT !.project_candidates_count = 0],
     [DefaultProjectParams EXCEPT !.project_min_significant_gene_value = -1],
     [DefaultProjectParams EXCEPT !.project_min_usage_weight = <<-1, 1>>],
     [DefaultProjectParams EXCEPT !.project_min_consistency_weight = <<-1, 1>>],
     [DefaultProjectParams EXCEPT !.project_max_consistency_fold = -1],
     [DefaultProjectParams EXCEPT !.project_max_inconsistent_genes = -1],
     [DefaultProjectParams EXCEPT !.project_max_projection_fold = -1]}

\* Calls with more candidates than atlas metacells, and with a significance
\* floor of one UMI.
MoreProjectParams ==
    {[DefaultProjectParams EXCEPT !.project_candidates_count = NumAtlas + 1]} \cup
    {[DefaultProjectParams EXCEPT !.project_min_significant_gene_value = 1,
                                  !.project_max_consistency_fold = fold,
                                  !.project_max_inconsistent_genes = 0] : fold \in {0, 1}}

ProjectParams ==
    ValidProjectParams \cup {DefaultProjectParams} \cup MoreProjectParams
        \cup InvalidProjectParams

PendingResult == [status |-> "pending"]
NoRepresentResult == [called |-> FALSE]
NotSet == [set |-> FALSE]

RareIdle ==
    /\ rpc = "idle"
    /\ umis = <<>>
    /\ rare_params = <<>>
    /\ rare_module_of_cells = <<>>
    /\ rare_module_of_genes = <<>>
    /\ list_of_names_of_genes_of_modules = <<>>
    /\ candidate_genes_indices = <<>>
    /\ combined_candidate_indices = <<>>
    /\ module_position = 0
    /\ max_strength_of_cells = <<>>
    /\ gene_indices_of_modules = <<>>
    /\ raw_module_index = 0
    /\ rare_annotations = <<>>

ProjectInit ==
    /\ RareIdle
    /\ SampledIdle
    /\ GenesIdle
    /\ ppc = "start"
    /\ atlas_umis \in [AtlasRows -> MetacellRows]
    /\ query_umis \in [QueryRows -> MetacellRows]
    /\ atlas_var_names = GeneNames
    /\ \/ query_var_names = GeneNames /\ project_params \in ProjectParams
       \/ query_var_names = OtherGeneNames /\ project_params = DefaultProjectParams
    /\ represent_results = [i \in QueryRows |-> NoRepresentResult]
    /\ results = [i \in QueryRows |-> PendingResult]
    /\ qdata_charted = NotSet
    /\ qdata_projected = NotSet
    /\ sparse_weights = NotSet

SpecRare == RareInit /\ [][RareNext]_vars

(***************************************************************************)
(* project_query_onto_atlas: the matrices computed once for all rows.      *)
(***************************************************************************)
atlas_total_umis == [j \in AtlasRows |-> SumOver(atlas_umis[j], ProjectGenes)]
query_total_umis == [i \in QueryRows |-> SumOver(query_umis[i], ProjectGenes)]

atlas_fractions == [j \in AtlasRows |-> [g \in ProjectGenes |->
                       <<atlas_umis[j][g], atlas_total_umis[j]>>]]
query_fractions == [i \in QueryRows |-> [g \in ProjectGenes |->
                       <<query_umis[i][g], query_total_umis[i]>>]]

\* The argument of log2 in atlas_log_fractions and query_log_fractions.
atlas_normalized_fractions(p) ==
    [j \in AtlasRows |-> [g \in ProjectGenes |->
        RAdd(atlas_fractions[j][g], p.project_fold_normalization)]]
query_normalized_fractions(p) ==
    [i \in QueryRows |-> [g \in ProjectGenes |->
        RAdd(query_fractions[i][g], p.project_fold_normalization)]]

\* 2 ^ |log2(x) - log2(y)|, the ratio of the larger to the smaller
FoldRatio(x, y) == IF RLeq(y, x) THEN RDiv(x, y) ELSE RDiv(y, x)

\* |log2(x) - log2(y)| <= fold, for a whole number fold
AbsFoldAtMost(x, y, fold) ==
    /\ fold >= 0
    /\ RLeq(FoldRatio(x, y), <<TwoToThe(fold), 1>>)

\* log2(x) - log2(y) > fold, for x >= y and a whole number fold >= 0
FoldAbove(x, y, fold) == RLess(<<TwoToThe(fold) * y[1], y[2]>>, x)

(***************************************************************************)
(* _project_single_metacell                                                *)
(***************************************************************************)
RMaxOf(S) == CHOOSE x \in S : \A y \in S : RLeq(y, x)

\* 2 ^ (the maximal fold factor of every atlas metacell relative to the query
\* metacell), the fold of an insignificant gene being 0.
query_atlas_max_fold_factors(i, p) ==
    [j \in AtlasRows |->
        RMaxOf({IF atlas_umis[j][g] + query_umis[i][g] < p.project_min_significant_gene_value
                THEN <<1, 1>>
                ELSE FoldRatio(atlas_normalized_fractions(p)[j][g],
                               query_normalized_fractions(p)[i][g]) :
                g \in ProjectGenes})]

\* np.arange(...)[0:project_candidates_count]
FirstAtlasIndices(i, p) ==
    IF p.project_candidates_count < NumAtlas
    THEN {SetToSortedSeq(0 .. (p.project_candidates_count - 1))}
    ELSE {SetToSortedSeq(AtlasRows)}

\* np.argpartition(...)[0:project_candidates_count], sorted: some
\* project_candidates_count rows none of which has a larger maximal fold than
\* a row left out.
AtlasCandidateIndices(i, p) ==
    IF p.project_candidates_count < NumAtlas
    THEN LET folds == query_atlas_max_fold_factors(i, p)
         IN {SetToSortedSeq(S) :
               S \in {T \in SUBSET AtlasRows :
                        /\ Cardinality(T) = p.project_candidates_count
                        /\ \A a \in T : \A b \in AtlasRows \ T : RLeq(folds[a], folds[b])}}
    ELSE {SetToSortedSeq(AtlasRows)}

\* What ut.represent can return for a number of candidates: nothing, or
\* non-negative weights with a sum of 1.
RepresentResults(count) ==
    {[called |-> TRUE, ok |-> FALSE, weights |-> <<>>]} \cup
    {[called |-> TRUE, ok |-> TRUE,
      weights |-> [k \in 1 .. count |-> <<w[k], WeightDenominator>>]] :
       w \in {v \in [1 .. count -> 0 .. WeightDenominator] :
                SumSeq(v) = WeightDenominator}}

\* atlas_candidate_weights[atlas_candidate_weights < project_min_usage_weight] = 0
ZeroedBelowUsage(weights, p) ==
    [k \in 1 .. Len(weights) |->
        IF RLess(weights[k], p.project_min_usage_weight) THEN <<0, 1>> ELSE weights[k]]

\* atlas_candidate_weights[atlas_candidate_weights < project_min_usage_weight]
\*     /= np.sum(atlas_candidate_weights)
DividedBelowUsage(weights, p) ==
    LET total == RSumSeq(weights)
    IN [k \in 1 .. Len(weights) |->
          IF RLess(weights[k], p.project_min_usage_weight)
          THEN RDiv(weights[k], total) ELSE weights[k]]

\* The positions of atlas_candidate_weights > 0, which no NaN is.
UsedPositions(weights) ==
    SetToSortedSeq({k \in 1 .. Len(weights) : ~IsNaN(weights[k]) /\ weights[k][1] > 0})

RaisedResult(error) == [status |-> "raised", error |-> error]

\* The inconsistent genes among all the used candidates.
atlas_inconsistent_genes_of_used(i, p, atlas_used_indices, atlas_used_weights) ==
    LET significant(g) ==
            {atlas_used_indices[k] : k \in
                {k \in 1 .. Len(atlas_used_weights) :
                    query_umis[i][g] + atlas_umis[atlas_used_indices[k]][g]
                        >= p.project_min_significant_gene_value}}
        values(g) == {atlas_normalized_fractions(p)[j][g] : j \in significant(g)}
    IN {g \in ProjectGenes :
          /\ significant(g) # {}
          /\ \E x \in values(g) : \E y \in values(g) :
                FoldAbove(x, y, p.project_max_consistency_fold)}

\* The inconsistent genes of the used candidates, lines 239-258.
atlas_inconsistent_genes(i, p, atlas_used_indices, atlas_used_weights) ==
    LET consistency_used ==
            {k \in 1 .. Len(atlas_used_weights) :
                RLeq(p.project_min_consistency_weight, atlas_used_weights[k])}
        significant(g) ==
            {atlas_used_indices[k] : k \in
                {k \in consistency_used :
                    query_umis[i][g] + atlas_umis[atlas_used_indices[k]][g]
                        >= p.project_min_significant_gene_value}}
        values(g) == {atlas_normalized_fractions(p)[j][g] : j \in significant(g)}
    IN {g \in ProjectGenes :
          /\ significant(g) # {}
          /\ LET highest == RMaxOf(values(g))
                 lowest == CHOOSE x \in values(g) : \A y \in values(g) : RLeq(x, y)
             IN FoldAbove(highest, lowest, p.project_max_consistency_fold)}

\* assert represent_result is not None
AssertNothing(represent_result) == TRUE

AssertRepresented(represent_result) == represent_result.ok

\* The result of the call for one query metacell, given the candidates that
\* were picked and what ut.represent returned.
ProjectSingleMetacell(i, p, atlas_candidate_indices, represent_result) ==
    IF ~AssertRepresented(represent_result) THEN RaisedResult("AssertionError")
    ELSE
    LET atlas_candidate_weights ==
            DividedBelowUsage(ZeroedBelowUsage(represent_result.weights, p), p)
        used == UsedPositions(atlas_candidate_weights)
        atlas_used_weights == [k \in 1 .. Len(used) |-> atlas_candidate_weights[used[k]]]
        atlas_used_indices == [k \in 1 .. Len(used) |-> atlas_candidate_indices[used[k]]]
        projected_fractions ==
            [g \in ProjectGenes |->
                RSumSeq([k \in 1 .. Len(used) |->
                            RMul(atlas_used_weights[k],
                                 atlas_fractions[atlas_used_indices[k]][g])])]
        projected_total_umis ==
            RSumSeq([k \in 1 .. Len(used) |->
                        RMul(atlas_used_weights[k],
                             <<atlas_total_umis[atlas_used_indices[k]], 1>>)])
        projected_umis ==
            [g \in ProjectGenes |-> RMul(projected_fractions[g], projected_total_umis)]
        significant_genes ==
            {g \in ProjectGenes :
                RLeq(<<p.project_min_significant_gene_value, 1>>,
                     RAdd(<<query_umis[i][g], 1>>, projected_umis[g]))}
        projection_charted ==
            \A g \in significant_genes :
                AbsFoldAtMost(RAdd(projected_fractions[g], p.project_fold_normalization),
                              query_normalized_fractions(p)[i][g],
                              p.project_max_projection_fold)
        consistency_charted ==
            Cardinality(atlas_inconsistent_genes(i, p, atlas_used_indices, atlas_used_weights))
                <= p.project_max_inconsistent_genes
    IN IF significant_genes = {}
       THEN RaisedResult("ValueError")   \* np.max of an empty array
       ELSE [status |-> "done",
             charted |-> IF projection_charted THEN consistency_charted ELSE FALSE,
             atlas_used_indices |-> atlas_used_indices,
             atlas_used_weights |-> atlas_used_weights,
             projected_total_umis |-> projected_total_umis,
             atlas_candidate_weights |-> atlas_candidate_weights,
             atlas_candidate_indices |-> atlas_candidate_indices]

(***************************************************************************)
(* project_query_onto_atlas                                                *)
(***************************************************************************)
\* The assertions of lines 96-103.
ProjectAssertionsHold(p) ==
    /\ p.project_fold_normalization[1] > 0
    /\ p.project_candidates_count > 0
    /\ p.project_min_significant_gene_value >= 0
    /\ p.project_min_usage_weight[1] >= 0
    /\ p.project_min_consistency_weight[1] >= 0
    /\ p.project_max_consistency_fold >= 0
    /\ p.project_max_inconsistent_genes >= 0
    /\ atlas_var_names = query_var_names

ProjectEntry ==
    /\ ppc = "start"
    /\ ppc' = IF ProjectAssertionsHold(project_params) THEN "mapping" ELSE "failed"
    /\ UNCHANGED <<atlas_umis, query_umis, atlas_var_names, query_var_names,
                   project_params, represent_results, results, qdata_charted,
                   qdata_projected, sparse_weights>>
    /\ UNCHANGED <<rare_vars, sampled_vars, genes_vars>>

\* One call of _project_single by parallel_map, for any row not yet computed.
ProjectSingle(i) ==
    /\ ppc = "mapping"
    /\ results[i].status = "pending"
    /\ \E atlas_candidate_indices \in AtlasCandidateIndices(i, project_params) :
         \E represent_result \in RepresentResults(Len(atlas_candidate_indices)) :
            /\ represent_results' = [represent_results EXCEPT ![i] = represent_result]
            /\ results' = [results EXCEPT ![i] =
                   ProjectSingleMetacell(i, project_params, atlas_candidate_indices,
                                         represent_result)]
    /\ UNCHANGED <<ppc, atlas_umis, query_umis, atlas_var_names, query_var_names,
                   project_params, qdata_charted, qdata_projected, sparse_weights>>
    /\ UNCHANGED <<rare_vars, sampled_vars, genes_vars>>

\* parallel_map raises what a call raised: the whole function fails.
ParallelMapRaises ==
    /\ ppc = "mapping"
    /\ \E i \in QueryRows : results[i].status = "raised"
    /\ ppc' = "failed"
    /\ UNCHANGED <<atlas_umis, query_umis, atlas_var_names, query_var_names,
                   project_params, represent_results, results, qdata_charted,
                   qdata_projected, sparse_weights>>
    /\ UNCHANGED <<rare_vars, sampled_vars, genes_vars>>

\* The row of the csr_matrix: the weight of every atlas metacell, 0 if unused.
dense_weights(result) ==
    [j \in AtlasRows |->
        IF \E k \in 1 .. Len(result.atlas_used_indices) : result.atlas_used_indices[k] = j
        THEN result.atlas_used_weights[
                 CHOOSE k \in 1 .. Len(result.atlas_used_indices) :
                     result.atlas_used_indices[k] = j]
        ELSE <<0, 1>>]

\* (dense_weights @ atlas_fractions) * projected_total_umis[:, np.newaxis]
projected(result) ==
    [g \in ProjectGenes |->
        RMul(RSumSeq([n \in 1 .. NumAtlas |->
                         RMul(dense_weights(result)[n - 1], atlas_fractions[n - 1][g])]),
             result.projected_total_umis)]

\* np.concatenate of the vectors of the rows, in the order of the rows
RECURSIVE Concatenate(_, _)
Concatenate(vectors, count) ==
    IF count = 0 THEN <<>> ELSE Concatenate(vectors, count - 1) \o vectors[count - 1]

\* np.cumsum of the sizes of the rows after a leading 0
indptr(atlas_used_sizes) ==
    [i \in 0 .. NumQuery |-> SumSeq([k \in 1 .. i |-> atlas_used_sizes[k - 1]])]

\* The entries of a row, taken from the start of the data.
CsrRowWithoutOffset(data, indices, offsets, i) ==
    [k \in 1 .. (offsets[i + 1] - offsets[i]) |-> <<indices[k], data[k]>>]

\* The entries of row i of csr_matrix((data, indices, indptr))
CsrRow(data, indices, offsets, i) ==
    [k \in 1 .. (offsets[i + 1] - offsets[i]) |->
        <<indices[offsets[i] + k], data[offsets[i] + k]>>]

\* Lines 144-163, once parallel_map has returned the results of all rows.
CollectResults ==
    /\ ppc = "mapping"
    /\ \A i \in QueryRows : results[i].status = "done"
    /\ qdata_charted' = [set |-> TRUE, value |-> [i \in QueryRows |-> results[i].charted]]
    /\ \E indices \in {Concatenate([i \in QueryRows |-> results[i].atlas_used_indices],
                                   NumQuery)} :
       \E data \in {Concatenate([i \in QueryRows |-> results[i].atlas_used_weights],
                                NumQuery)} :
       \E offsets \in {indptr([i \in QueryRows |-> Len(results[i].atlas_used_indices)])} :
          sparse_weights' =
              [set |-> TRUE, value |-> [i \in QueryRows |-> CsrRow(data, indices, offsets, i)]]
    /\ LET projected_total_umis == [i \in QueryRows |-> results[i].projected_total_umis]
           dense_row(i) ==
               [atlas_used_indices |->
                    [k \in 1 .. Len(sparse_weights'.value[i]) |-> sparse_weights'.value[i][k][1]],
                atlas_used_weights |->
                    [k \in 1 .. Len(sparse_weights'.value[i]) |-> sparse_weights'.value[i][k][2]],
                projected_total_umis |-> projected_total_umis[i]]
       IN qdata_projected' =
              [set |-> TRUE, value |-> [i \in QueryRows |-> projected(dense_row(i))]]
    /\ ppc' = "returned"
    /\ UNCHANGED <<atlas_umis, query_umis, atlas_var_names, query_var_names,
                   project_params, represent_results, results>>
    /\ UNCHANGED <<rare_vars, sampled_vars, genes_vars>>

ProjectNext ==
    \/ ProjectEntry
    \/ \E i \in QueryRows : ProjectSingle(i)
    \/ ParallelMapRaises
    \/ CollectResults

SpecProject == ProjectInit /\ [][ProjectNext]_vars

(***************************************************************************)
(* find_properly_sampled_cells and find_properly_sampled_genes.  An        *)
(* optional parameter is <<>> for None and <<value>> otherwise; a mask is  *)
(* the sequence of its entries.  pandas raises a ValueError when a column  *)
(* is set, or a series is built, with values whose length is not the       *)
(* length of the index.                                                    *)
(***************************************************************************)
SampledData ==
    UNION {[0 .. (cells - 1) -> [0 .. (genes - 1) -> 0 .. MaxSampledUmi]] :
             cells \in 1 .. MaxSampledCells, genes \in 1 .. MaxSampledGenes}

SampledCalls ==
    [function : {"find_properly_sampled_cells"},
     minimal_total_umis : {<<>>, <<1>>, <<2>>},
     maximal_total_umis : {<<>>, <<2>>, <<3>>},
     inplace : BOOLEAN] \cup
    [function : {"find_properly_sampled_genes"},
     minimal_total_umis : {<<1>>, <<2>>},
     maximal_total_umis : {<<>>},
     inplace : BOOLEAN]

NoSampledAnnotations == [properly_sampled_cells |-> NotSet, properly_sampled_genes |-> NotSet]

NotReturned == [kind |-> "none yet"]
ReturnedNone == [kind |-> "None"]

SampledInit ==
    /\ RareIdle
    /\ ProjectIdle
    /\ GenesIdle
    /\ spc = "start"
    /\ sampled_umis \in SampledData
    /\ sampled_call \in SampledCalls
    /\ adata_obs = NoSampledAnnotations
    /\ adata_var = NoSampledAnnotations
    /\ sampled_return = NotReturned

n_obs == Cardinality(DOMAIN sampled_umis)
n_vars == Cardinality(DOMAIN sampled_umis[0])

obs_names == [c \in 1 .. n_obs |-> 300 + c]
adata_var_names == [g \in 1 .. n_vars |-> 400 + g]

sampled_total_umis_of_cells ==
    [c \in 1 .. n_obs |-> SumOver(sampled_umis[c - 1], 0 .. (n_vars - 1))]

total_umis_of_genes ==
    [g \in 1 .. n_vars |->
        SumOver([c \in 0 .. (n_obs - 1) |-> sampled_umis[c][g - 1]], 0 .. (n_obs - 1))]

cells_mask(call) ==
    [c \in 1 .. n_obs |->
        /\ (call.minimal_total_umis # <<>>
              => sampled_total_umis_of_cells[c] >= call.minimal_total_umis[1])
        /\ (call.maximal_total_umis # <<>>
              => sampled_total_umis_of_cells[c] <= call.maximal_total_umis[1])]

genes_mask(call) ==
    [g \in 1 .. n_vars |-> total_umis_of_genes[g] >= call.minimal_total_umis[1]]

\* pd.Series(values, index=index)
PandasSeries(values, index) ==
    IF Len(values) = Len(index)
    THEN [kind |-> "series", index |-> index, values |-> values]
    ELSE [kind |-> "ValueError"]

\* frame[name] = values, for a frame of the given number of rows
ColumnCanBeSet(rows, values) == Len(values) = rows

FindProperlySampledCells ==
    /\ spc = "start"
    /\ sampled_call.function = "find_properly_sampled_cells"
    /\ LET mask == cells_mask(sampled_call)
       IN IF sampled_call.inplace
          THEN IF ColumnCanBeSet(n_vars, mask)
               THEN /\ adata_var' = [adata_var EXCEPT !.properly_sampled_cells =
                                        [set |-> TRUE, value |-> mask]]
                    /\ sampled_return' = ReturnedNone
                    /\ spc' = "returned"
               ELSE /\ spc' = "failed"
                    /\ UNCHANGED <<adata_var, sampled_return>>
          ELSE /\ sampled_return' = PandasSeries(mask, obs_names)
               /\ spc' = IF sampled_return'.kind = "series" THEN "returned" ELSE "failed"
               /\ UNCHANGED adata_var
    /\ UNCHANGED <<sampled_umis, sampled_call, adata_obs>>
    /\ UNCHANGED <<rare_vars, project_vars, genes_vars>>

FindProperlySampledGenes ==
    /\ spc = "start"
    /\ sampled_call.function = "find_properly_sampled_genes"
    /\ LET mask == genes_mask(sampled_call)
       IN IF sampled_call.inplace
          THEN IF ColumnCanBeSet(n_vars, mask)
               THEN /\ adata_var' = [adata_var EXCEPT !.properly_sampled_genes =
                                        [set |-> TRUE, value |-> mask]]
                    /\ sampled_return' = ReturnedNone
                    /\ spc' = "returned"
               ELSE /\ spc' = "failed"
                    /\ UNCHANGED <<adata_var, sampled_return>>
          ELSE /\ sampled_return' = PandasSeries(mask, obs_names)
               /\ spc' = IF sampled_return'.kind = "series" THEN "returned" ELSE "failed"
               /\ UNCHANGED adata_var
    /\ UNCHANGED <<sampled_umis, sampled_call, adata_obs>>
    /\ UNCHANGED <<rare_vars, project_vars, genes_vars>>

SampledNext ==
    \/ FindProperlySampledCells
    \/ FindProperlySampledGenes

SpecSampled == SampledInit /\ [][SampledNext]_vars

(***************************************************************************)
(* _identify_genes on its own, one iteration of its loop at a time, for    *)
(* every similarity matrix and merge tree of a few candidate genes.        *)
(***************************************************************************)
CorrelationThresholds == {<<1, 2>>, <<1, 1>>}

GenesInit ==
    /\ RareIdle
    /\ ProjectIdle
    /\ SampledIdle
    /\ gpc = "loop"
    /\ genes_count \in 2 .. MaxCandidateGenes
    /\ genes_linkage \in Linkages(genes_count)
    /\ genes_similarities \in Similarities(genes_count)
    /\ genes_min_correlation \in CorrelationThresholds
    /\ genes_position = 1
    /\ genes_dict = InitialCombined(genes_count)
    /\ genes_outcomes = <<>>

IdentifyGenesStep ==
    /\ gpc = "loop"
    /\ genes_position <= Len(genes_linkage)
    /\ genes_dict' = LinkStep(genes_dict, genes_count + genes_position - 1,
                              genes_linkage[genes_position], genes_similarities,
                              genes_min_correlation)
    /\ genes_outcomes' = Append(genes_outcomes,
                                LinkOutcome(genes_dict, genes_linkage[genes_position],
                                            genes_similarities, genes_min_correlation))
    /\ genes_position' = genes_position + 1
    /\ UNCHANGED <<gpc, genes_count, genes_linkage, genes_similarities,
                   genes_min_correlation>>
    /\ UNCHANGED <<rare_vars, project_vars, sampled_vars>>

IdentifyGenesReturn ==
    /\ gpc = "loop"
    /\ genes_position > Len(genes_linkage)
    /\ gpc' = "returned"
    /\ UNCHANGED <<genes_count, genes_linkage, genes_similarities, genes_min_correlation,
                   genes_position, genes_dict, genes_outcomes>>
    /\ UNCHANGED <<rare_vars, project_vars, sampled_vars>>

GenesNext ==
    \/ IdentifyGenesStep
    \/ IdentifyGenesReturn

SpecGenes == GenesInit /\ [][GenesNext]_vars

(***************************************************************************)
(* Properties of find_rare_gene_modules.                                   *)
(***************************************************************************)
RecordedModules == 0 .. (Len(gene_indices_of_modules) - 1)

\* The cell has at least min_cell_module_total UMIs in the recorded module.
IsStrongFor(module, c) ==
    c \in strong_cell_indices(gene_indices_of_modules[module + 1], rare_params)

\* The strength of the recorded module for a cell that is strong for it.
StrengthFor(module, c) ==
    module_strength_of_strong_cells(gene_indices_of_modules[module + 1], rare_params)[c]

StrongModulesOf(c) == {module \in RecordedModules : IsStrongFor(module, c)}

\* C3: while _identify_cells runs, a cell is never associated with a module
\* whose strength for the cell is equal to or lower than the strength of an
\* earlier recorded module the cell is strong for: the earlier module keeps
\* the cell (first writer wins on ties).
C3_FirstWriterWins ==
    rpc = "identify_cells" =>
        \A c \in Cells : \A later \in StrongModulesOf(c) : \A earlier \in StrongModulesOf(c) :
            (earlier < later /\ RLeq(StrengthFor(later, c), StrengthFor(earlier, c)))
                => rare_module_of_cells[c] # later

IdentifyCellsEnded ==
    \/ rpc = "return_no_modules"
    \/ rpc = "compress" /\ raw_module_index = 0 /\ list_of_names_of_genes_of_modules = <<>>

\* C4: at the end of _identify_cells a cell that is strong for more than one
\* recorded module is associated with a module of greatest strength among
\* them, and a cell that is strong for no recorded module is at -1.
C4_MostEnrichedModule ==
    IdentifyCellsEnded =>
        \A c \in Cells :
            /\ StrongModulesOf(c) = {} => rare_module_of_cells[c] = -1
            /\ Cardinality(StrongModulesOf(c)) > 1 =>
                 /\ rare_module_of_cells[c] \in StrongModulesOf(c)
                 /\ \A other \in StrongModulesOf(c) :
                      RLeq(StrengthFor(other, c), StrengthFor(rare_module_of_cells[c], c))

CellsOfModule(index) == {c \in Cells : rare_module_of_cells[c] = index}
GenesOfModule(index) == {g \in Genes : rare_module_of_genes[g] = index}
UmisOfModule(index) == SumOver(total_umis_of_cells, CellsOfModule(index))

\* The module meets neither reason to discard it.
MeetsThresholds(cells_count, total) ==
    /\ cells_count >= rare_params.min_cells_of_modules
    /\ total * rare_params.min_modules_size_factor[2]
         >= rare_params.target_metacell_size * rare_params.min_modules_size_factor[1]

FinalModules == 0 .. (Len(list_of_names_of_genes_of_modules) - 1)

C5_Step ==
    (rpc = "compress" /\ raw_module_index < Len(gene_indices_of_modules)) =>
        LET cells == CellsOfModule(raw_module_index)
            genes == Range(gene_indices_of_modules[raw_module_index + 1])
            kept == Len(list_of_names_of_genes_of_modules')
                      = Len(list_of_names_of_genes_of_modules) + 1
            discarded == /\ list_of_names_of_genes_of_modules'
                              = list_of_names_of_genes_of_modules
                         /\ \A c \in cells : rare_module_of_cells'[c] = -1
                         /\ \A g \in genes : rare_module_of_genes'[g] = -1
        IN IF MeetsThresholds(Cardinality(cells), SumOver(total_umis_of_cells, cells))
           THEN kept /\ ~discarded
           ELSE discarded /\ ~kept

C5_Final ==
    rpc = "return_compressed" =>
        \A m \in FinalModules : MeetsThresholds(Cardinality(CellsOfModule(m)), UmisOfModule(m))

\* C5: a step of _compress_results discards the module (its genes and cells
\* go back to -1 and no names are recorded) exactly when its cell count is
\* below min_cells_of_modules or its total UMIs are below
\* target_metacell_size * min_modules_size_factor, a module at both
\* thresholds being kept; every module of the final output meets both.
C5_DiscardOnlyBelowThresholds == [][C5_Step /\ C5_Final]_vars

\* A module that is exactly at both thresholds was kept, another was discarded.
C5_Witness ==
    /\ rpc = "return_compressed"
    /\ Len(list_of_names_of_genes_of_modules) < Len(gene_indices_of_modules)
    /\ \E m \in FinalModules :
         /\ Cardinality(CellsOfModule(m)) = rare_params.min_cells_of_modules
         /\ REq(<<UmisOfModule(m), 1>>, min_umis_of_modules(rare_params))

\* The final index of a recorded module: the index its first gene carries.
FinalIndexOf(raw) == rare_module_of_genes[gene_indices_of_modules[raw + 1][1]]

C6_Final ==
    rpc = "return_compressed" =>
        /\ \A c \in Cells : rare_module_of_cells[c] \in {-1} \cup FinalModules
        /\ \A g \in Genes : rare_module_of_genes[g] \in {-1} \cup FinalModules
        /\ \A m \in FinalModules : CellsOfModule(m) # {} /\ GenesOfModule(m) # {}
        /\ \A raw \in RecordedModules :
             \A g \in Range(gene_indices_of_modules[raw + 1]) :
                rare_module_of_genes[g] = FinalIndexOf(raw)
        /\ \A m \in FinalModules : \E raw \in RecordedModules : FinalIndexOf(raw) = m
        /\ \A raw1, raw2 \in RecordedModules :
             (raw1 < raw2 /\ FinalIndexOf(raw1) >= 0 /\ FinalIndexOf(raw2) >= 0)
                => FinalIndexOf(raw1) < FinalIndexOf(raw2)
        /\ \A m \in FinalModules :
             LET names == list_of_names_of_genes_of_modules[m + 1]
             IN /\ Range(names) = {var_names[g] : g \in GenesOfModule(m)}
                /\ Len(names) = Cardinality(GenesOfModule(m))
        /\ \A m1, m2 \in FinalModules :
             m1 # m2 => Range(list_of_names_of_genes_of_modules[m1 + 1])
                          \cap Range(list_of_names_of_genes_of_modules[m2 + 1]) = {}

\* Cells of two different modules are never given one index by a step.
C6_Step ==
    rpc = "compress" =>
        \A c1, c2 \in Cells :
            (rare_module_of_cells[c1] # rare_module_of_cells[c2]
               /\ rare_module_of_cells'[c1] # -1)
                => rare_module_of_cells'[c1] # rare_module_of_cells'[c2]

\* C6: after _compress_results the surviving modules carry the indices
\* 0 .. n-1 without gaps in the order of their discovery, every gene of a
\* surviving module carries its new index, renumbering never joins the cells
\* of two modules, the genes of distinct final modules are disjoint, and
\* entry m of the recorded names holds exactly the names of the genes of
\* module index m.
C6_DenseRenumbering == [][C6_Step /\ C6_Final]_vars

\* Two modules survived a compression that discarded an earlier module.
C6_Witness ==
    /\ rpc = "return_compressed"
    /\ Len(list_of_names_of_genes_of_modules) >= 2
    /\ Len(list_of_names_of_genes_of_modules) < Len(gene_indices_of_modules)
    /\ FinalIndexOf(0) = -1

\* C7: wherever find_rare_gene_modules calls _results, the maximal module
\* index of the cells and the maximal module index of the genes both equal
\* the number of recorded modules minus one.
C7_ResultsAssertions ==
    rpc \in ReturnPositions =>
        /\ \A c \in Cells : rare_module_of_cells[c] <= Len(list_of_names_of_genes_of_modules) - 1
        /\ \A g \in Genes : rare_module_of_genes[g] <= Len(list_of_names_of_genes_of_modules) - 1
        /\ \E c \in Cells : rare_module_of_cells[c] = Len(list_of_names_of_genes_of_modules) - 1
        /\ \E g \in Genes : rare_module_of_genes[g] = Len(list_of_names_of_genes_of_modules) - 1

\* _results is reached after a compression that kept one module and discarded another.
C7_Witness ==
    /\ rpc = "return_compressed"
    /\ Len(list_of_names_of_genes_of_modules) >= 1
    /\ Len(list_of_names_of_genes_of_modules) < Len(gene_indices_of_modules)
    /\ \E c \in Cells : rare_module_of_cells[c] = -1

\* The gene is in few enough cells and has a high enough maximum.
PassesCandidateFilter(g) ==
    /\ Cardinality({c \in Cells : umis[c][g] > 0}) * rare_params.max_gene_cell_fraction[2]
          <= rare_params.max_gene_cell_fraction[1] * NumCells
    /\ \E c \in Cells : umis[c][g] >= rare_params.min_gene_maximum

FilteredGenes == {g \in Genes : PassesCandidateFilter(g)}

RareEntryAssertionsHold ==
    rare_params.min_cells_of_modules > 0 /\ rare_params.min_genes_of_modules > 0

\* C11: when fewer genes than min_genes_of_modules pass the filter, the call
\* goes from _pick_candidates straight to _results and returns: no module is
\* listed, every cell and gene is at -1, and nothing of the similarity, the
\* clustering, the cell assignment or the compression has run.
C11_TooFewCandidatesReturnsEmpty ==
    (/\ RareEntryAssertionsHold
     /\ rpc \notin {"start", "pick_candidates"}
     /\ Cardinality(FilteredGenes) < rare_params.min_genes_of_modules) =>
        /\ rpc \in {"return_no_candidates", "returned"}
        /\ list_of_names_of_genes_of_modules = <<>>
        /\ \A c \in Cells : rare_module_of_cells[c] = -1
        /\ \A g \in Genes : rare_module_of_genes[g] = -1
        /\ candidate_genes_indices = <<>>
        /\ combined_candidate_indices = <<>>
        /\ module_position = 0
        /\ gene_indices_of_modules = <<>>
        /\ raw_module_index = 0
        /\ rpc = "returned" =>
             /\ rare_annotations.written
             /\ rare_annotations.rare_gene_modules = <<>>
             /\ \A c \in Cells : rare_annotations.cells_rare_gene_module[c] = -1
             /\ \A g \in Genes : rare_annotations.genes_rare_gene_module[g] = -1

\* The call returned the empty result although one gene passed the filter.
C11_Witness ==
    /\ rpc = "returned"
    /\ Cardinality(FilteredGenes) = 1
    /\ rare_params.min_genes_of_modules = 2
    /\ rare_annotations.written
    /\ rare_annotations.rare_gene_modules = <<>>

CandidateModuleGenes(position) ==
    {candidate_genes_indices[k + 1] : k \in Range(combined_candidate_indices[position])}

\* Some cell has at least min_cell_module_total UMIs in the genes.
HasStrongCell(genes) ==
    \E c \in Cells : SumOver(umis[c], genes) >= rare_params.min_cell_module_total

LargeEnoughCandidateModules ==
    {position \in 1 .. Len(combined_candidate_indices) :
        Len(combined_candidate_indices[position]) >= rare_params.min_genes_of_modules}

IsRecordedModule(genes) ==
    \E module \in RecordedModules :
        /\ Range(gene_indices_of_modules[module + 1]) = genes
        /\ \A g \in genes : rare_module_of_genes[g] = module

\* C16 as claimed: at the end of _identify_cells every candidate module with
\* at least min_genes_of_modules genes is recorded with its gene list and an
\* index its genes carry, also when it gained no cell.
C16_ZeroCellModuleIsRecorded ==
    IdentifyCellsEnded =>
        \A position \in LargeEnoughCandidateModules :
            IsRecordedModule(CandidateModuleGenes(position))

\* C16 as amended: a step of _identify_cells for a candidate module in which
\* no cell has min_cell_module_total UMIs skips the module (nothing is
\* appended, no gene and no cell changes), and a step that records a
\* module gives its index to a cell.
C16_Step ==
    (rpc = "identify_cells" /\ module_position <= Len(combined_candidate_indices)) =>
        /\ ~HasStrongCell(CandidateModuleGenes(module_position)) =>
              /\ gene_indices_of_modules' = gene_indices_of_modules
              /\ rare_module_of_genes' = rare_module_of_genes
              /\ rare_module_of_cells' = rare_module_of_cells
              /\ module_position' = module_position + 1
              /\ rpc' = rpc
        /\ gene_indices_of_modules' # gene_indices_of_modules =>
              /\ Len(gene_indices_of_modules') = Len(gene_indices_of_modules) + 1
              /\ \E c \in Cells : rare_module_of_cells'[c] = Len(gene_indices_of_modules)

C16_ZeroCellModuleIsSkipped == [][C16_Step]_vars

\* _identify_cells ended with one module recorded and another, of enough
\* genes but without a strong cell, left out.
C16_Witness ==
    /\ IdentifyCellsEnded
    /\ gene_indices_of_modules # <<>>
    /\ \E position \in LargeEnoughCandidateModules :
          /\ ~HasStrongCell(CandidateModuleGenes(position))
          /\ ~IsRecordedModule(CandidateModuleGenes(position))
          /\ \A g \in CandidateModuleGenes(position) : rare_module_of_genes[g] = -1

\* C21: while _identify_cells runs, max_strength_of_cells of every cell
\* that is associated with a module is the strength of that module for the
\* cell, and it is the greatest strength of the cell over the modules
\* recorded so far (so it never decreases).
C21_MaxStrengthIsRunningMaximum ==
    rpc = "identify_cells" =>
        \A c \in Cells :
            rare_module_of_cells[c] >= 0 =>
                /\ REq(max_strength_of_cells[c], StrengthFor(rare_module_of_cells[c], c))
                /\ \A module \in StrongModulesOf(c) :
                      RLeq(StrengthFor(module, c), max_strength_of_cells[c])

\* C23: the assertion min_strong_fraction > 0 of _identify_cells holds for
\* every candidate module it is evaluated for: every cell with at least
\* min_cell_module_total UMIs in the module has UMIs in it, so that its
\* fraction of the module is a positive number.
C23_MinStrongFractionIsPositive ==
    (/\ rpc = "identify_cells"
     /\ module_position <= Len(combined_candidate_indices)
     /\ module_position \in LargeEnoughCandidateModules) =>
        \A c \in Cells :
            SumOver(umis[c], CandidateModuleGenes(module_position))
                    >= rare_params.min_cell_module_total
                => SumOver(umis[c], CandidateModuleGenes(module_position)) > 0

(***************************************************************************)
(* Properties of project_query_onto_atlas.                                 *)
(***************************************************************************)
\* A precondition of the call does not hold.
PreconditionViolated ==
    \/ atlas_var_names # query_var_names
    \/ project_params.project_fold_normalization[1] <= 0
    \/ project_params.project_min_significant_gene_value < 0
    \/ project_params.project_min_usage_weight[1] < 0
    \/ project_params.project_min_consistency_weight[1] < 0
    \/ project_params.project_max_consistency_fold < 0
    \/ project_params.project_max_inconsistent_genes < 0
    \/ project_params.project_max_projection_fold < 0

\* The rows computed by a call whose preconditions hold.
ComputedRows ==
    {i \in QueryRows : results[i].status = "done" /\ ~PreconditionViolated}

\* C1: the weights returned for a query row are all non-negative and have a
\* sum of 1, also when weights below project_min_usage_weight were zeroed.
\* Stated for the rows that keep a candidate (C8 is about the others).
C1_WeightsSumToOne ==
    \A i \in ComputedRows :
        results[i].atlas_used_weights # <<>> =>
            /\ \A k \in 1 .. Len(results[i].atlas_used_weights) :
                  results[i].atlas_used_weights[k][1] >= 0
            /\ REq(RSumSeq(results[i].atlas_used_weights), <<1, 1>>)

\* C2: the sum of every row of the projected matrix written to qdata is the
\* sum of the UMIs of the query row.  Stated for the rows whose weights have
\* a sum of 1 (C1 is about the others).
C2_ProjectedKeepsTotalUmis ==
    (qdata_projected.set /\ ~PreconditionViolated) =>
        \A i \in QueryRows :
            REq(RSumSeq(results[i].atlas_used_weights), <<1, 1>>) =>
                REq(RSumSeq([n \in 1 .. NumProjectGenes |-> qdata_projected.value[i][n - 1]]),
                    <<query_total_umis[i], 1>>)

\* ut.represent returned weights that are all below project_min_usage_weight.
AllWeightsBelowUsage(i) ==
    /\ ~PreconditionViolated
    /\ represent_results[i].called
    /\ represent_results[i].ok
    /\ \A k \in 1 .. Len(represent_results[i].weights) :
          RLess(represent_results[i].weights[k], project_params.project_min_usage_weight)

\* C8: a query row all of whose weights are below project_min_usage_weight is
\* reported as uncharted, and its weights are not divided by their zero sum
\* (no weight becomes NaN).
C8_AllPrunedIsUncharted ==
    \A i \in QueryRows :
        AllWeightsBelowUsage(i) =>
            /\ results[i].status = "done"
            /\ ~results[i].charted
            /\ \A k \in 1 .. Len(results[i].atlas_candidate_weights) :
                  ~IsNaN(results[i].atlas_candidate_weights[k])

NoResultOfRepresent(i) == represent_results[i].called /\ ~represent_results[i].ok

\* C9: when ut.represent returns nothing for a query row, the row's call
\* raises instead of going on with other weights, the function never
\* returns, and neither annotation of qdata is written.
C9_SolverFailureFailsAll ==
    \A i \in QueryRows :
        NoResultOfRepresent(i) =>
            /\ results[i].status = "raised"
            /\ ppc \in {"mapping", "failed"}
            /\ ~qdata_charted.set
            /\ ~qdata_projected.set
            /\ ~sparse_weights.set

\* The function failed after ut.represent returned nothing for one row and
\* weights for another row, whose result was computed.
C9_Witness ==
    /\ ppc = "failed"
    /\ \E i \in QueryRows : NoResultOfRepresent(i)
    /\ \E i \in QueryRows : results[i].status = "done"

\* C10: a call with different gene names, a fold normalization that is not
\* positive or a negative threshold fails before anything is computed or
\* written.
C10_PreconditionsAbort ==
    PreconditionViolated =>
        /\ ppc \in {"start", "failed"}
        /\ \A i \in QueryRows :
              results[i].status = "pending" /\ ~represent_results[i].called
        /\ ~qdata_charted.set
        /\ ~qdata_projected.set
        /\ ~sparse_weights.set

NoWeightPruned(i) ==
    /\ ~PreconditionViolated
    /\ represent_results[i].called
    /\ represent_results[i].ok
    /\ \A k \in 1 .. Len(represent_results[i].weights) :
          RLeq(project_params.project_min_usage_weight, represent_results[i].weights[k])

\* The projected fraction and the projected UMIs of a gene of a computed row.
ProjectedFractionOf(i, g) ==
    RSumSeq([n \in 1 .. NumAtlas |->
                RMul(dense_weights(results[i])[n - 1], atlas_fractions[n - 1][g])])

ProjectedUmisOf(i, g) == RMul(ProjectedFractionOf(i, g), results[i].projected_total_umis)

SignificantGenesOf(i) ==
    {g \in ProjectGenes :
        RLeq(<<project_params.project_min_significant_gene_value, 1>>,
             RAdd(<<query_umis[i][g], 1>>, ProjectedUmisOf(i, g)))}

\* The fold between the projected and the query expression of the gene is
\* above project_max_projection_fold.
ExceedsProjectionFold(i, g) ==
    LET projected_value == RAdd(ProjectedFractionOf(i, g),
                                project_params.project_fold_normalization)
        query_value == RAdd(query_fractions[i][g], project_params.project_fold_normalization)
        bound == TwoToThe(project_params.project_max_projection_fold)
    IN \/ RLess(<<bound * query_value[1], query_value[2]>>, projected_value)
       \/ RLess(<<bound * projected_value[1], projected_value[2]>>, query_value)

PassedProjectionFold(i) == \A g \in SignificantGenesOf(i) : ~ExceedsProjectionFold(i, g)

\* The used candidates that count for the consistency of the gene.
ConsistencyCandidatesOf(i, g) ==
    {j \in AtlasRows :
        /\ RLess(<<0, 1>>, dense_weights(results[i])[j])
        /\ RLeq(project_params.project_min_consistency_weight, dense_weights(results[i])[j])
        /\ query_umis[i][g] + atlas_umis[j][g]
              >= project_params.project_min_significant_gene_value}

\* (max - min) of the log fractions of the gene is above project_max_consistency_fold.
IsInconsistentGene(i, g) ==
    \E high \in ConsistencyCandidatesOf(i, g) : \E low \in ConsistencyCandidatesOf(i, g) :
        LET high_value == atlas_normalized_fractions(project_params)[high][g]
            low_value == atlas_normalized_fractions(project_params)[low][g]
        IN RLess(<<TwoToThe(project_params.project_max_consistency_fold) * low_value[1],
                   low_value[2]>>, high_value)

InconsistentGenesOf(i) == {g \in ProjectGenes : IsInconsistentGene(i, g)}

\* C14: every query row gets a charted or uncharted result, also when none
\* of its genes is significant; the row is uncharted when a significant gene
\* (query UMIs + projected UMIs >= project_min_significant_gene_value) has a
\* fold above project_max_projection_fold between its projected and its query
\* expression, and the genes below the floor never make it uncharted.
\* Stated for the rows none of whose weights was pruned.
C14_ProjectionFoldCheck ==
    \A i \in QueryRows :
        NoWeightPruned(i) =>
            /\ results[i].status = "done"
            /\ (\E g \in SignificantGenesOf(i) : ExceedsProjectionFold(i, g))
                  => ~results[i].charted
            /\ (PassedProjectionFold(i)
                  /\ Cardinality(InconsistentGenesOf(i))
                        <= project_params.project_max_inconsistent_genes)
                  => results[i].charted

C22_Collected ==
    sparse_weights.set =>
        \A i \in QueryRows :
            /\ Len(sparse_weights.value[i]) = Len(results[i].atlas_used_indices)
            /\ \A k \in 1 .. Len(sparse_weights.value[i]) :
                  sparse_weights.value[i][k] =
                      <<results[i].atlas_used_indices[k], results[i].atlas_used_weights[k]>>
            /\ qdata_charted.value[i] = results[i].charted
            /\ \A g \in ProjectGenes :
                  REq(qdata_projected.value[i][g],
                      RMul(RSumSeq([k \in 1 .. Len(results[i].atlas_used_indices) |->
                               RMul(results[i].atlas_used_weights[k],
                                    atlas_fractions[results[i].atlas_used_indices[k]][g])]),
                           results[i].projected_total_umis))

\* A step changes none of the shared matrices and parameters, and the call
\* of a row changes the result of no other row.
C22_Step ==
    /\ <<atlas_umis, query_umis, atlas_var_names, query_var_names, project_params>>'
          = <<atlas_umis, query_umis, atlas_var_names, query_var_names, project_params>>
    /\ \A i \in QueryRows :
          results[i].status # "pending" =>
              /\ results'[i] = results[i]
              /\ represent_results'[i] = represent_results[i]
    /\ Cardinality({i \in QueryRows : results'[i] # results[i]}) <= 1

\* C22: in whatever order the calls of the rows run and end, row i of the
\* returned weights holds the (atlas index, weight) pairs computed for query
\* row i, entry i of charted and row i of projected (scaled by the projected
\* total UMIs of row i) belong to query row i, and the call of a row
\* neither changes the shared matrices nor the result of another row.
C22_RowsKeepTheirResults == [][C22_Step /\ C22_Collected']_vars

\* The call returned after rows with different numbers of used candidates
\* and different results were computed.
C22_Witness ==
    /\ ppc = "returned"
    /\ sparse_weights.set
    /\ \E i \in QueryRows : \E j \in QueryRows :
          /\ i < j
          /\ Len(sparse_weights.value[i]) > Len(sparse_weights.value[j])
          /\ Len(sparse_weights.value[j]) > 0
          /\ sparse_weights.value[j][1] # sparse_weights.value[i][1]
          /\ qdata_charted.value[i] # qdata_charted.value[j]

(***************************************************************************)
(* Properties of _identify_genes.                                          *)
(***************************************************************************)
ClustersOf(dict) == {Range(dict[k].genes) : k \in 1 .. Len(dict)}

\* C19: before and after every iteration of the loop over the linkage, and
\* in what _identify_genes returns, every candidate gene is in exactly one
\* surviving cluster, so that the sides of a merge that was rejected or
\* skipped are still clusters.
C19_ClustersPartitionCandidates ==
    gpc \in {"loop", "returned"} =>
        /\ \A g \in 0 .. (genes_count - 1) :
              Cardinality({k \in 1 .. Len(genes_dict) : g \in Range(genes_dict[k].genes)}) = 1
        /\ \A k \in 1 .. Len(genes_dict) :
              /\ Range(genes_dict[k].genes) \subseteq 0 .. (genes_count - 1)
              /\ Cardinality(Range(genes_dict[k].genes)) = Len(genes_dict[k].genes)
        /\ \A k \in 1 .. Len(genes_outcomes) :
              \A side \in {genes_linkage[k][1], genes_linkage[k][2]} :
                 /\ genes_outcomes[k] = "rejected" => DictHas(genes_dict, side)
                 /\ (genes_outcomes[k] = "skipped" /\ side < genes_count)
                       => DictHas(genes_dict, side)

\* The call returned after it accepted a merge, rejected one and skipped one.
C19_Witness ==
    /\ gpc = "returned"
    /\ {"accepted", "rejected", "skipped"} \subseteq Range(genes_outcomes)
    /\ Len(genes_dict) >= 2

\* sum and count of the similarities of the different genes of a set
MeanReachesThreshold(genes) ==
    LET pairs == {pr \in genes \X genes : pr[1] # pr[2]}
        total == SumOver([pr \in pairs |-> genes_similarities[pr[1]][pr[2]]], pairs)
    IN total * genes_min_correlation[2] >= genes_min_correlation[1] * Cardinality(pairs)

C20_Step ==
    (gpc = "loop" /\ genes_position <= Len(genes_linkage)) =>
        LET left == genes_linkage[genes_position][1]
            right == genes_linkage[genes_position][2]
            node == genes_count + genes_position - 1
            surviving == DictHas(genes_dict, left) /\ DictHas(genes_dict, right)
            union == Range(DictGet(genes_dict, left)) \cup Range(DictGet(genes_dict, right))
        IN IF surviving /\ MeanReachesThreshold(union)
           THEN /\ DictHas(genes_dict', node)
                /\ Range(DictGet(genes_dict', node)) = union
                /\ ~DictHas(genes_dict', left)
                /\ ~DictHas(genes_dict', right)
                /\ ClustersOf(genes_dict') =
                      (ClustersOf(genes_dict)
                          \ {Range(DictGet(genes_dict, left)), Range(DictGet(genes_dict, right))})
                      \cup {union}
           ELSE genes_dict' = genes_dict

C20_Clusters ==
    \A cluster \in ClustersOf(genes_dict') :
        Cardinality(cluster) >= 2 => MeanReachesThreshold(cluster)

\* C20: an iteration of the loop accepts its merge node (the clusters of its
\* two sides are replaced by one cluster, keyed at the node, of the genes of
\* both) exactly when both sides are surviving clusters and the mean
\* similarity of the different genes of the union is at least
\* min_module_correlation; otherwise the clusters stay as they are, so that
\* no merge above a rejected merge is accepted; and every surviving cluster
\* of two or more genes has a mean similarity of at least
\* min_module_correlation.
C20_MergeAcceptedIffCorrelated == [][C20_Step /\ C20_Clusters]_vars

\* A merge whose mean similarity is exactly min_module_correlation was
\* accepted, and the merge above a rejected merge was skipped.
C20_Witness ==
    /\ gpc = "returned"
    /\ \E k \in 1 .. Len(genes_dict) :
          LET genes == Range(genes_dict[k].genes)
              pairs == {pr \in genes \X genes : pr[1] # pr[2]}
          IN /\ Cardinality(genes) >= 2
             /\ SumOver([pr \in pairs |-> genes_similarities[pr[1]][pr[2]]], pairs)
                   * genes_min_correlation[2]
                  = genes_min_correlation[1] * Cardinality(pairs)
    /\ \E k \in 1 .. Len(genes_outcomes) :
          /\ genes_outcomes[k] = "skipped"
          /\ \E side \in {genes_linkage[k][1], genes_linkage[k][2]} :
                /\ side >= genes_count
                /\ genes_outcomes[side - genes_count + 1] = "rejected"

(***************************************************************************)
(* Properties of find_properly_sampled_cells and _genes.                   *)
(***************************************************************************)
\* C17: find_properly_sampled_cells with inplace=True returns None, the
\* per-observation annotation properly_sampled_cells of adata holds the mask
\* that is true exactly for the cells whose total UMIs are within the
\* minimum and the maximum given, and the per-variable annotations are as
\* they were.
C17_CellsMaskIsWrittenPerObservation ==
    (/\ sampled_call.function = "find_properly_sampled_cells"
     /\ sampled_call.inplace
     /\ spc # "start") =>
        /\ spc = "returned"
        /\ sampled_return = ReturnedNone
        /\ adata_var = NoSampledAnnotations
        /\ adata_obs.properly_sampled_cells.set
        /\ adata_obs.properly_sampled_cells.value =
             [c \in 1 .. n_obs |->
                LET total == SumOver(sampled_umis[c - 1], 0 .. (n_vars - 1))
                IN /\ \A minimal \in Range(sampled_call.minimal_total_umis) : total >= minimal
                   /\ \A maximal \in Range(sampled_call.maximal_total_umis) : total <= maximal]

\* C18: find_properly_sampled_genes with inplace=False returns a series with
\* one entry per gene, indexed by the names of the genes, the entry of a gene
\* being true exactly when its total UMIs are at least
\* minimal_total_umis_of_genes.
C18_GenesSeriesIsIndexedByGenes ==
    (/\ sampled_call.function = "find_properly_sampled_genes"
     /\ ~sampled_call.inplace
     /\ spc # "start") =>
        /\ spc = "returned"
        /\ sampled_return.kind = "series"
        /\ sampled_return.index = adata_var_names
        /\ sampled_return.values =
             [g \in 1 .. n_vars |->
                SumOver([c \in 0 .. (n_obs - 1) |-> sampled_umis[c][g - 1]], 0 .. (n_obs - 1))
                    >= sampled_call.minimal_total_umis[1]]

====
